---- MODULE Spec2Model ----
(***************************************************************************)
(* The interactive map synchronization layer of the geospatial dashboard:  *)
(* the GeographicView component (one mapbox instance, three geojson        *)
(* sources, six visual layers grouped in three layer kinds) together with  *)
(* the three layer data hooks that feed it, the query cache the hooks      *)
(* configure and the data access client behind them.                       *)
(*                                                                         *)
(* One behaviour is the life of one mounted view.  A step is one task of   *)
(* the browser's event loop: an event handler, a timer callback, the map's *)
(* ready signal, a fetch completion, or one React effect.  React state is  *)
(* the committed state; an effect whose dependency array changed is        *)
(* recorded in pendingEffects and runs later, as a step of its own, on the *)
(* state committed by then.  Callbacks that React does not re-create       *)
(* (timer and interval closures) keep the values they captured when they   *)
(* were scheduled; those values are stored with the timer.                 *)
(***************************************************************************)
EXTENDS Integers, Sequences, FiniteSets

VARIABLES
    mounted,              \* the view is mounted
    initDep,              \* mapContainer.current as last seen by the init effect's dependency array
    cleanupRegistered,    \* the init effect's last run returned cleanupMap
    mapsCreated,          \* number of mapboxgl.Map instances constructed
    readyPending,         \* instances constructed whose 'load' event has not fired
    mapRef,               \* map.current holds an instance
    isMapLoaded,
    isMapInitialized,
    mapSourcesReady,
    showMap,
    isLayerTransitioning,
    activeLayer,
    clusterCategory,
    availableCategories,
    visible,              \* layer kind -> its visual layers have visibility 'visible'
    sources,              \* source name -> features last set, or Unregistered
    data,                 \* layer kind -> version of the data its hook exposes (0: undefined)
    fetching,             \* layer kinds whose current query has a fetch in flight
    pendingEffects,       \* effects whose dependencies changed and that have not run yet
    settleTimer,          \* the 500 ms timer of the load handler is scheduled
    transitionTimers,     \* the 300 ms timers of onChange, oldest first, with their closures
    retries,              \* running retry intervals, with their closures
    writeLost,            \* a failed source write was abandoned (ignored result, or retries ended)
    switches,             \* number of onChange calls made
    request,              \* what the server does with the request of an API call
    returned,             \* the call's outcome: the function called, threw or returned, the value
    pushed,               \* what the data effect does with the returned value
    filterOf,             \* layer kind -> the value of its filter input
    observed,             \* hook -> the key of the query it observes
    lastDefined,          \* hook -> the key of the last query it observed that had data
    queries,              \* the entries of the query cache
    changes,              \* number of filter changes made
    apiError,             \* the API-error banner is shown
    errorEffectDue,       \* the apiError effect has not run on the current data
    detail,               \* a payload in full: the function it is answered to, its records
    features              \* the features the function's map callback made of it

viewVars == <<mounted, initDep, cleanupRegistered, mapsCreated, readyPending, mapRef,
          isMapLoaded, isMapInitialized, mapSourcesReady, showMap,
          isLayerTransitioning, activeLayer, clusterCategory, availableCategories,
          visible, sources, data, fetching, pendingEffects, settleTimer,
          transitionTimers, retries, writeLost, switches>>

serviceVars == <<request, returned, pushed>>

cacheVars == <<filterOf, observed, lastDefined, queries, changes, apiError, errorEffectDue>>

recordVars == <<detail, features>>

dataLayerVars == <<serviceVars, cacheVars, recordVars>>

vars == <<viewVars, dataLayerVars>>

(***************************************************************************)
(* Bounds of the model.                                                    *)
(***************************************************************************)
MaxSwitches == 2
MaxRefetches == 1
MaxRetries == 1
MaxRecords == 2
MaxFilterChanges == 2

(***************************************************************************)
(* Layer kinds, source names, features.                                    *)
(***************************************************************************)
Kinds == {"density", "clusters", "neighborhoods"}

sourceName(k) ==
    CASE k = "density" -> "density-grid"
      [] k = "clusters" -> "business-clusters"
      [] k = "neighborhoods" -> "neighborhoods"

SourceNames == {sourceName(k) : k \in Kinds}

EmptyCollection == << >>

\* A feature is its id, the shape of geometry.coordinates and its categories.
\* Shapes: "ok" an array of rings (or a point) of numbers; "nan" an array
\* whose first ring starts with a NaN point; "noring" an empty array;
\* "notarray" an object that is not an array.
Feat(id, geom, cats) == [id |-> id, geom |-> geom, categories |-> cats]

\* getSource(name) of a source that is not registered returns undefined; the
\* marker stands for it, a value no hook delivers
Unregistered == <<Feat("unregistered", "none", {})>>

\* What the three hooks can deliver, version after version.  getDensityGrid
\* and getBusinessClusters only build features whose coordinates are arrays;
\* getNeighborhoodMetrics copies geometry.coordinates as received and never
\* returns an empty list.
DensityResults == << <<Feat("d1", "ok", {}), Feat("d2", "noring", {})>>,
                     << >> >>

ClusterResults == << <<Feat("k1", "ok", {"Food"}), Feat("k2", "ok", {})>>,
                     <<Feat("k2", "ok", {})>> >>

NeighborhoodResults == << <<Feat("n1", "ok", {}), Feat("n2", "nan", {})>>,
                          <<Feat("n3", "notarray", {})>> >>

ResultsOf(k) ==
    CASE k = "density" -> DensityResults
      [] k = "clusters" -> ClusterResults
      [] k = "neighborhoods" -> NeighborhoodResults

\* The data of version v of layer k (v >= 1); later versions repeat the list.
ResultAt(k, v) == ResultsOf(k)[((v - 1) % Len(ResultsOf(k))) + 1]

\* useQuery: data is undefined and isLoading is true until the first fetch
\* resolves; afterwards placeholderData keeps the previous data in place.
hookData(k) == IF data[k] = 0 THEN EmptyCollection ELSE ResultAt(k, data[k])
isLoading(k) == data[k] = 0

(***************************************************************************)
(* The view's feature validation and the content each data effect pushes.  *)
(***************************************************************************)
\* feature && geometry && geometry.coordinates && Array.isArray(coordinates)
hasCoordinateArray(f) == f.geom \in {"ok", "nan", "noring"}

\* neighborhoods also need coords[0] to be an array whose first three points
\* are pairs of numbers that are not NaN
hasValidPoints(f) == hasCoordinateArray(f) /\ f.geom = "ok"

\* clusterData.filter(categories.includes(clusterCategory)) when a category is selected
filteredClusters(d, category) ==
    IF category = "" THEN d
    ELSE SelectSeq(d, LAMBDA f : category \in f.categories)

\* the five literal neighborhoods the view substitutes for empty data
fallbackData ==
    << Feat("Hyde Park", "ok", {}), Feat("Downtown Tampa", "ok", {}),
       Feat("Ybor City", "ok", {}), Feat("Westshore", "ok", {}),
       Feat("Seminole Heights", "ok", {}) >>

dataToUse(d) == IF Len(d) > 0 THEN d ELSE fallbackData

\* What an effect that passed its guard does with data d:
\*   write: it calls safelyUpdateMapSource; fc: with these features;
\*   retry: it starts a retry interval when that call returns false.
NoWrite == [write |-> FALSE, fc |-> EmptyCollection, retry |-> FALSE]
Clear == [write |-> TRUE, fc |-> EmptyCollection, retry |-> FALSE]
Push(fc) == [write |-> TRUE, fc |-> fc, retry |-> TRUE]

densityUpdate(d) ==
    IF Len(d) = 0 THEN Clear
    ELSE LET validFeatures == SelectSeq(d, hasCoordinateArray)
         IN  IF Len(validFeatures) = 0 THEN NoWrite ELSE Push(validFeatures)

clusterUpdate(d, category) ==
    IF Len(d) = 0 THEN Clear
    ELSE LET validFeatures == SelectSeq(filteredClusters(d, category), hasCoordinateArray)
         IN  IF Len(validFeatures) = 0 THEN Clear ELSE Push(validFeatures)

\* the effect's debug log of the first three neighborhoods evaluates
\* coordinates[0].slice(0, 2), which throws when coordinates has no element 0;
\* the effect's catch then ends it before any write
debugLogThrows(d) ==
    \E i \in 1..Len(d) : i <= 3 /\ d[i].geom \in {"noring", "notarray"}

neighborhoodUpdate(d) ==
    IF Len(d) > 0 /\ debugLogThrows(d) THEN NoWrite
    ELSE LET validFeatures == SelectSeq(dataToUse(d), hasValidPoints)
         IN  IF Len(validFeatures) = 0 THEN Clear ELSE Push(validFeatures)

layerUpdate(k) ==
    CASE k = "density" -> densityUpdate(hookData(k))
      [] k = "clusters" -> clusterUpdate(hookData(k), clusterCategory)
      [] k = "neighborhoods" -> neighborhoodUpdate(hookData(k))

\* the first guard of the three data effects: nothing is pushed while it holds
dataEffectReturnsEarly(k) ==
    ~isMapLoaded \/ ~mapSourcesReady \/ isLayerTransitioning \/ isLoading(k)

(***************************************************************************)
(* safelyUpdateMapSource.  loaded and ready are the values of isMapLoaded  *)
(* and mapSourcesReady in the closure of the caller; srcs are the map's    *)
(* sources when it is called; setDataOk is whether source.setData returns  *)
(* (TRUE) or throws (FALSE).                                               *)
(***************************************************************************)
\* the value safelyUpdateMapSource leaves with its caller: true or false
\* (updated), the map's sources afterwards, and whether an error escaped
Updated(result, srcs) == [updated |-> result, sources |-> srcs, threw |-> FALSE]
Thrown(srcs) == [updated |-> FALSE, sources |-> srcs, threw |-> TRUE]

\* faulty variant: getSource and setData are called outside any try/catch
noSourceCatch(attempt, srcs) == attempt

\* try { ... } catch (error) { console.error(...); return false; }
sourceCatch(attempt, srcs) == IF attempt.threw THEN Updated(FALSE, srcs) ELSE attempt

\* faulty variant: the not-ready branch reports an update
notReadyReportsUpdated(loaded, ready, srcs, name, fc, setDataOk) ==
    IF ~mapRef \/ ~loaded \/ ~ready
    THEN Updated(TRUE, srcs)
    ELSE IF srcs[name] = Unregistered THEN Updated(FALSE, srcs)
    ELSE IF setDataOk THEN Updated(TRUE, [srcs EXCEPT ![name] = fc])
    ELSE Updated(FALSE, srcs)

\* faulty variant: setData is called on every source of the map
updatesEverySource(loaded, ready, srcs, name, fc, setDataOk) ==
    IF ~mapRef \/ ~loaded \/ ~ready
    THEN Updated(FALSE, srcs)
    ELSE IF srcs[name] = Unregistered THEN Updated(FALSE, srcs)
    ELSE IF setDataOk THEN Updated(TRUE, [n \in SourceNames |-> fc])
    ELSE Updated(FALSE, srcs)

safelyUpdateMapSource(loaded, ready, srcs, name, fc, setDataOk) ==
    IF ~mapRef \/ ~loaded \/ ~ready
    THEN Updated(FALSE, srcs)
    ELSE sourceCatch(IF srcs[name] = Unregistered
                     THEN Updated(FALSE, srcs)
                     ELSE IF setDataOk
                          THEN Updated(TRUE, [srcs EXCEPT ![name] = fc])
                          ELSE Thrown(srcs),
                     srcs)

(***************************************************************************)
(* Layer visibility.                                                       *)
(***************************************************************************)
\* faulty variant: every layer is added with visibility 'visible'
everyLayerVisible == [k \in Kinds |-> TRUE]

\* the layout of the six layers as the load handler adds them
initialVisibility == [k \in Kinds |-> k = "density"]

NoneVisible == [k \in Kinds |-> FALSE]

\* the six setLayoutProperty calls of forceRefreshSources and of the
\* visibility effect: 'visible' for the layers of `layer`, 'none' for the rest
\* faulty variant: shows the layer without hiding the other kinds
showWithoutHiding(layer) == [k \in Kinds |-> visible[k] \/ k = layer]

onlyVisible(layer) == [k \in Kinds |-> k = layer]

\* forceRefreshSources as created in a render whose isMapLoaded and
\* activeLayer were `loaded` and `layer` (the three sources exist from the
\* load handler on, so the 200 ms re-schedule branch is not taken)
\* faulty variant: hides every kind and shows none
hideAllLayers(loaded, layer) ==
    IF ~mapRef \/ ~loaded THEN visible ELSE NoneVisible

forceRefreshSources(loaded, layer) ==
    IF ~mapRef \/ ~loaded THEN visible ELSE onlyVisible(layer)

\* onChange hiding the layers of the current kind
hideCurrentLayer(layer) ==
    IF mapRef THEN [visible EXCEPT ![layer] = FALSE] ELSE visible

\* onChange: if (layer === activeLayer) return
\* faulty variant: the handler lacks the same-layer check
neverSameLayer(layer) == FALSE

isSameLayer(layer) == layer = activeLayer

\* the init effect: if (!mapContainer.current || map.current || isMapInitialized) return
\* faulty variant: the guard looks at the map handle only
handleOnlyGuard(ref) == ref

initReturnsEarly(ref) == ref \/ isMapInitialized

\* faulty variant: the controls are rendered as soon as the map is loaded
renderedWhenLoaded == mounted /\ isMapLoaded

\* the layer controls, the filters and the refresh button are rendered
controlsRendered == mounted /\ isMapLoaded /\ showMap

(***************************************************************************)
(* Dependency arrays: the effects that re-run when a state value changes.  *)
(***************************************************************************)
\* faulty variant: the data effects do not list the flag among their dependencies
visibilityEffectOnly == {"visibility"}

dependsOnMapLoaded == {"visibility"} \cup Kinds
dependsOnShowMap == {"visibility"}
dependsOnActiveLayer == {"visibility"}
dependsOnTransitioning == {"visibility"} \cup Kinds
\* faulty variant: the cluster effect lists the density data, not its own
clusterEffectOnDensityData(k) ==
    CASE k = "density" -> {"density", "clusters"}
      [] k = "clusters" -> {"categories"}
      [] OTHER -> {k}

dependsOnData(k) == IF k = "clusters" THEN {k, "categories"} ELSE {k}
dependsOnCategory == {"clusters"}

EffectNames == {"init", "visibility", "categories"} \cup Kinds

(***************************************************************************)
(* The data access client (services/api/geographical.ts).  A response is   *)
(* what the server does with one request: fate says how the request ends   *)
(* and records is the array delivered when the payload is an array.        *)
(***************************************************************************)
\* network: fetch rejects; timeout: the request is aborted after 10 seconds;
\* http: the status is not ok; parse: the body is not JSON; falsy, object:
\* the payload is null (or 0, "", false), or a value that is not an array
Fates == {"network", "timeout", "http", "parse", "falsy", "object", "array"}

\* One element of a payload array.  isNull: the element is null.  geom: the
\* shape of the record's own coordinates (coordinates.coordinates of a grid
\* cell, center.coordinates of a cluster, geometry.coordinates or
\* area_boundary.coordinates of a neighborhood), "absent" when there are
\* none.  center: the record's center, "absent", "nan" (an array that holds
\* no numbers) or "ok".  attrs: the other fields the function asks for are
\* there (metrics of a grid cell; cluster_id, size, avg_rating, categories
\* of a cluster).
GeomShapes == {"absent", "notarray", "noring", "nan", "ok"}
CenterShapes == {"absent", "nan", "ok"}

NullRecord == [isNull |-> TRUE, geom |-> "absent", center |-> "absent", attrs |-> FALSE]

Records ==
    {NullRecord}
      \cup [isNull : {FALSE}, geom : GeomShapes, center : CenterShapes, attrs : BOOLEAN]

Responses ==
    {[fate |-> f, records |-> << >>] : f \in Fates \ {"array"}}
      \cup {[fate |-> "array", records |-> r] :
              r \in UNION {[1..n -> Records] : n \in 0..MaxRecords}}

\* the index of a record names the feature made from it
RecordIds == <<"record-0", "record-1", "record-2", "record-3">>

\* the outcome of a call: it threw, or it returned value
Raise == [threw |-> TRUE, value |-> << >>]
Return(v) == [threw |-> FALSE, value |-> v]

\* safeFetch throws when fetch rejects, when the abort timer fires, when the
\* status is not ok and when response.json() rejects
safeFetchThrows(resp) == resp.fate \in {"network", "timeout", "http", "parse"}

\* !data || !Array.isArray(data) || data.length === 0
noUsableArray(resp) == resp.fate \in {"falsy", "object"} \/ Len(resp.records) = 0

\* faulty variant: the function has no catch around its body
noCatch(attempt, onError) == attempt

\* try { ... } catch (error) { return onError; } around the body of each function
tryCatch(attempt, onError) == IF attempt.threw THEN Return(onError) ELSE attempt

\* what the map callback returns for a record whose processing threw
NullFeature == Feat("null", "none", {})

\* .filter(feature => feature !== null)
withoutNull(mapped) == SelectSeq(mapped, LAMBDA f : f # NullFeature)

densityHasExpectedStructure(item) ==
    ~item.isNull /\ item.geom \in {"noring", "nan", "ok"} /\ item.attrs

\* faulty variant: a malformed grid cell is dropped
densityDropsMalformed(item, index) ==
    IF ~densityHasExpectedStructure(item) THEN NullFeature
    ELSE Feat(RecordIds[index], item.geom, {})

\* a malformed grid cell becomes a square near Tampa; a well-formed one
\* keeps its coordinates as received
densityFeature(item, index) ==
    IF ~densityHasExpectedStructure(item) THEN Feat(RecordIds[index], "ok", {})
    ELSE Feat(RecordIds[index], item.geom, {})

getDensityGrid(resp) ==
    tryCatch(IF safeFetchThrows(resp) THEN Raise
             ELSE IF noUsableArray(resp) THEN Return(<< >>)
             ELSE Return(withoutNull([i \in 1..Len(resp.records) |->
                                      densityFeature(resp.records[i], i)])),
             << >>)

clusterHasExpectedStructure(cluster) ==
    ~cluster.isNull /\ cluster.attrs /\ cluster.center # "absent"

\* a malformed cluster becomes a point near Tampa; a well-formed one keeps
\* center.coordinates as received when it is an array, and otherwise gets a
\* point of numbers (x and y, longitude and latitude, or the default)
clusterFeature(cluster, index) ==
    IF ~clusterHasExpectedStructure(cluster)
    THEN Feat(RecordIds[index], "ok", {"Restaurant"})
    ELSE Feat(RecordIds[index],
              IF cluster.geom \in {"noring", "nan", "ok"} THEN cluster.geom ELSE "ok",
              {"Food"})

\* faulty variant: an empty or failed cluster response gets placeholder clusters
clustersWithPlaceholder(resp) ==
    IF safeFetchThrows(resp) \/ noUsableArray(resp)
    THEN Return(<<Feat(RecordIds[1], "ok", {"Restaurant"})>>)
    ELSE Return(withoutNull([i \in 1..Len(resp.records) |->
                             clusterFeature(resp.records[i], i)]))

getBusinessClusters(resp) ==
    tryCatch(IF safeFetchThrows(resp) THEN Raise
             ELSE IF noUsableArray(resp) THEN Return(<< >>)
             ELSE Return(withoutNull([i \in 1..Len(resp.records) |->
                                      clusterFeature(resp.records[i], i)])),
             << >>)

\* the ten literal neighborhoods of the client
createFallbackNeighborhoods ==
    << Feat("Hyde Park", "ok", {}), Feat("Downtown Tampa", "ok", {}),
       Feat("Ybor City", "ok", {}), Feat("Westshore", "ok", {}),
       Feat("Channelside", "ok", {}), Feat("Seminole Heights", "ok", {}),
       Feat("SoHo", "ok", {}), Feat("Palma Ceia", "ok", {}),
       Feat("Carrollwood", "ok", {}), Feat("Brandon", "ok", {}) >>

\* faulty variant: a record without geometry and center is dropped
neighborhoodDropsNoGeometry(neighborhood, index) ==
    IF neighborhood.isNull THEN NullFeature
    ELSE IF neighborhood.geom # "absent" THEN Feat(RecordIds[index], neighborhood.geom, {})
    ELSE IF neighborhood.center = "nan" THEN Feat(RecordIds[index], "nan", {})
    ELSE IF neighborhood.center = "ok" THEN Feat(RecordIds[index], "ok", {})
    ELSE NullFeature

\* neighborhood.geometry of a null record throws and the callback returns
\* null; coordinates that are there are copied as received; a center becomes
\* a square around it (of NaN when the center holds no numbers); a record
\* with neither gets a generated polygon
neighborhoodFeature(neighborhood, index) ==
    IF neighborhood.isNull THEN NullFeature
    ELSE IF neighborhood.geom # "absent" THEN Feat(RecordIds[index], neighborhood.geom, {})
    ELSE IF neighborhood.center = "nan" THEN Feat(RecordIds[index], "nan", {})
    ELSE Feat(RecordIds[index], "ok", {})

\* faulty variant: no fallback set, the empty list as for the other two layers
neighborhoodsWithoutFallback(resp) ==
    tryCatch(IF safeFetchThrows(resp) THEN Raise
             ELSE IF noUsableArray(resp) THEN Return(<< >>)
             ELSE Return(withoutNull([i \in 1..Len(resp.records) |->
                                      neighborhoodFeature(resp.records[i], i)])),
             << >>)

getNeighborhoodMetrics(resp) ==
    tryCatch(IF safeFetchThrows(resp) THEN Raise
             ELSE IF noUsableArray(resp) THEN Return(createFallbackNeighborhoods)
             ELSE LET fs == withoutNull([i \in 1..Len(resp.records) |->
                                      neighborhoodFeature(resp.records[i], i)])
                  IN  Return(IF Len(fs) > 0 THEN fs ELSE createFallbackNeighborhoods),
             createFallbackNeighborhoods)

apiFunction(k, resp) ==
    CASE k = "density" -> getDensityGrid(resp)
      [] k = "clusters" -> getBusinessClusters(resp)
      [] k = "neighborhoods" -> getNeighborhoodMetrics(resp)

\* no call has been made; no value has reached a data effect
NoRequest == [fate |-> "none", records |-> << >>]
NotReturned == [fn |-> "none", threw |-> FALSE, value |-> << >>]
NotPushed == [fn |-> "none", write |-> FALSE, fc |-> << >>]

ServiceIdle ==
    /\ request = NoRequest
    /\ returned = NotReturned
    /\ pushed = NotPushed

\* one of the three functions is called and the server answers with request
Call(k) ==
    /\ request \in Responses
    /\ returned = NotReturned
    /\ LET r == apiFunction(k, request)
       IN  returned' = [fn |-> k, threw |-> r.threw, value |-> r.value]
    /\ UNCHANGED <<request, pushed>>
    /\ UNCHANGED cacheVars
    /\ UNCHANGED recordVars
    /\ UNCHANGED viewVars

\* the hook's queryFn hands the value to the view (an empty list when the
\* call threw), and the layer's data effect, with the map ready and no
\* category selected, validates it and writes to the source
PushReturned ==
    /\ returned # NotReturned
    /\ pushed = NotPushed
    /\ LET d == IF returned.threw THEN << >> ELSE returned.value
           u == CASE returned.fn = "density" -> densityUpdate(d)
                  [] returned.fn = "clusters" -> clusterUpdate(d, "")
                  [] returned.fn = "neighborhoods" -> neighborhoodUpdate(d)
       IN  pushed' = [fn |-> returned.fn, write |-> u.write, fc |-> u.fc]
    /\ UNCHANGED <<request, returned>>
    /\ UNCHANGED cacheVars
    /\ UNCHANGED recordVars
    /\ UNCHANGED viewVars

(***************************************************************************)
(* The map callbacks of the three functions, field by field.  Coordinates  *)
(* are in hundredths of a degree.  An optional field is << >> when it is   *)
(* absent and <<v>> when it is there.  (Null records are the subject of    *)
(* the coarser transforms above.)                                          *)
(***************************************************************************)
Absent == << >>

\* x || d for a number (0 is falsy), a string ("" is falsy), an array (never falsy)
numberOr(field, d) == IF field = Absent \/ field[1] = 0 THEN d ELSE field[1]
stringOr(field, d) == IF field = Absent \/ field[1] = "" THEN d ELSE field[1]
arrayOr(field, d) == IF field = Absent THEN d ELSE field[1]

\* `grid-${index}` and the square near Tampa of a malformed cell
GridIds == <<"grid-0", "grid-1", "grid-2", "grid-3">>
TampaSquares == <<"square-0", "square-1", "square-2", "square-3">>

Metrics(bc, ar, sd, st) ==
    [business_count |-> bc, avg_rating |-> ar, service_diversity |-> sd, service_types |-> st]

\* coordinates: item.coordinates.coordinates, "notarray" when it is not an array
DensityItems ==
    [grid_id : {Absent, <<"">>, <<"g1">>, <<"g2">>},
     coordinates : {Absent, <<"notarray">>, <<"ringA">>, <<"ringB">>},
     metrics : {Absent,
                <<Metrics(<<10>>, <<4>>, <<2>>, << <<"Food">> >>)>>,
                <<Metrics(<<0>>, <<0>>, <<0>>, << << >> >>)>>,
                <<Metrics(<<10>>, Absent, Absent, Absent)>>}]

DensityGridFeature(id, coordinates, bc, ar, sd, st) ==
    [id |-> id, coordinates |-> coordinates, business_count |-> bc, avg_rating |-> ar,
     service_diversity |-> sd, service_types |-> st]

densityItemHasExpectedStructure(item) ==
    /\ item.coordinates # Absent
    /\ item.coordinates[1] # "notarray"
    /\ item.metrics # Absent

\* faulty variant: the id is always made from the index
densityIdFromIndex(item, index) ==
    IF ~densityItemHasExpectedStructure(item)
    THEN DensityGridFeature(GridIds[index], TampaSquares[index], 0, 0, 0, << >>)
    ELSE DensityGridFeature(GridIds[index], item.coordinates[1],
                            numberOr(item.metrics[1].business_count, 0),
                            numberOr(item.metrics[1].avg_rating, 0),
                            numberOr(item.metrics[1].service_diversity, 0),
                            arrayOr(item.metrics[1].service_types, << >>))

\* the map callback of getDensityGrid
densityItemFeature(item, index) ==
    IF ~densityItemHasExpectedStructure(item)
    THEN DensityGridFeature(GridIds[index], TampaSquares[index], 0, 0, 0, << >>)
    ELSE DensityGridFeature(stringOr(item.grid_id, GridIds[index]), item.coordinates[1],
                            numberOr(item.metrics[1].business_count, 0),
                            numberOr(item.metrics[1].avg_rating, 0),
                            numberOr(item.metrics[1].service_diversity, 0),
                            arrayOr(item.metrics[1].service_types, << >>))

\* JSON values as the code inspects them: typeof, Array.isArray, Object.keys
Number(n) == [type |-> "number", n |-> n, elems |-> << >>]
ArrayOf(elems) == [type |-> "array", n |-> 0, elems |-> elems]
Text == [type |-> "string", n |-> 0, elems |-> << >>]
Entry(key, val) == [key |-> key, val |-> val]
ObjectOf(entries) == [isObject |-> TRUE, isArray |-> FALSE, entries |-> entries]

hasKey(obj, key) == \E i \in 1..Len(obj.entries) : obj.entries[i].key = key
valueAt(obj, key) ==
    obj.entries[CHOOSE i \in 1..Len(obj.entries) : obj.entries[i].key = key].val
isNumberAt(obj, key) == hasKey(obj, key) /\ valueAt(obj, key).type = "number"
isArrayAt(obj, key) == hasKey(obj, key) /\ valueAt(obj, key).type = "array"

\* The forms in which a center is sent: "pair" [lon, lat]; "coordinates"
\* {type, coordinates: [lon, lat]}; "xy" {x, y}; "lonlat" {longitude,
\* latitude}; "latlon" the same with latitude first; "latlng" {lat, lng};
\* "named" {name, lat, lng}; "text" a string.
Forms == {"pair", "coordinates", "xy", "lonlat", "latlon", "latlng", "named", "text"}
Points == {<<-8250, 2790>>, <<-8240, 2800>>}

centerAs(form, p) ==
    CASE form = "pair" ->
           [isObject |-> TRUE, isArray |-> TRUE,
            entries |-> <<Entry("0", Number(p[1])), Entry("1", Number(p[2]))>>]
      [] form = "coordinates" ->
           ObjectOf(<<Entry("type", Text), Entry("coordinates", ArrayOf(p))>>)
      [] form = "xy" -> ObjectOf(<<Entry("x", Number(p[1])), Entry("y", Number(p[2]))>>)
      [] form = "lonlat" ->
           ObjectOf(<<Entry("longitude", Number(p[1])), Entry("latitude", Number(p[2]))>>)
      [] form = "latlon" ->
           ObjectOf(<<Entry("latitude", Number(p[2])), Entry("longitude", Number(p[1]))>>)
      [] form = "latlng" ->
           ObjectOf(<<Entry("lat", Number(p[2])), Entry("lng", Number(p[1]))>>)
      [] form = "named" ->
           ObjectOf(<<Entry("name", Text), Entry("lat", Number(p[2])),
                      Entry("lng", Number(p[1]))>>)
      [] form = "text" -> [isObject |-> FALSE, isArray |-> FALSE, entries |-> << >>]

\* [-82.45, 27.95]
DefaultCoordinates == <<-8245, 2795>>

\* faulty variant: x and y are taken as latitude and longitude
clusterCoordinatesXYSwapped(center) ==
    IF isArrayAt(center, "coordinates") THEN valueAt(center, "coordinates").elems
    ELSE IF isNumberAt(center, "x") /\ isNumberAt(center, "y")
    THEN <<valueAt(center, "y").n, valueAt(center, "x").n>>
    ELSE IF isNumberAt(center, "longitude") /\ isNumberAt(center, "latitude")
    THEN <<valueAt(center, "longitude").n, valueAt(center, "latitude").n>>
    ELSE DefaultCoordinates

\* "Handle different possible coordinate formats from the API"
clusterCoordinates(center) ==
    IF isArrayAt(center, "coordinates") THEN valueAt(center, "coordinates").elems
    ELSE IF isNumberAt(center, "x") /\ isNumberAt(center, "y")
    THEN <<valueAt(center, "x").n, valueAt(center, "y").n>>
    ELSE IF isNumberAt(center, "longitude") /\ isNumberAt(center, "latitude")
    THEN <<valueAt(center, "longitude").n, valueAt(center, "latitude").n>>
    ELSE IF center.isObject /\ Len(center.entries) = 2
    THEN IF center.entries[1].val.type = "number" /\ center.entries[2].val.type = "number"
         THEN <<center.entries[1].val.n, center.entries[2].val.n>>
         ELSE DefaultCoordinates
    ELSE DefaultCoordinates

\* attrs: cluster_id, size, avg_rating and categories have their types;
\* hasCenter: the record has a center, sent as form for the point
ClusterItems == [attrs : BOOLEAN, hasCenter : BOOLEAN, form : Forms, point : Points]

\* the geometry the map callback of getBusinessClusters gives a cluster
clusterItemFeature(cluster, index) ==
    IF ~(cluster.attrs /\ cluster.hasCenter)
    THEN [type |-> "Point", coordinates |-> <<-8245 + (index - 1), 2795 + (index - 1)>>]
    ELSE [type |-> "Point",
          coordinates |-> clusterCoordinates(centerAs(cluster.form, cluster.point))]

\* const size = 0.01
size == 1

\* const lat = 27.94 + (index % 5) * 0.02; const lng = -82.48 + Math.floor(index / 5) * 0.03
indexPoint(index) == <<-8248 + ((index - 1) \div 5) * 3, 2794 + ((index - 1) % 5) * 2>>

neighborhoodCenterPoint(center, index) ==
    IF center.isArray THEN [i \in 1..Len(center.entries) |-> center.entries[i].val.n]
    ELSE IF isArrayAt(center, "coordinates") THEN valueAt(center, "coordinates").elems
    ELSE IF isNumberAt(center, "x") /\ isNumberAt(center, "y")
    THEN <<valueAt(center, "x").n, valueAt(center, "y").n>>
    ELSE IF isNumberAt(center, "longitude") /\ isNumberAt(center, "latitude")
    THEN <<valueAt(center, "longitude").n, valueAt(center, "latitude").n>>
    ELSE IF /\ Len(center.entries) = 2
            /\ center.entries[1].val.type = "number"
            /\ center.entries[2].val.type = "number"
    THEN <<center.entries[1].val.n, center.entries[2].val.n>>
    ELSE indexPoint(index)

\* "Create a polygon around the center point"
squareAround(centerPoint) ==
    << <<centerPoint[1] - size, centerPoint[2] - size>>,
       <<centerPoint[1] + size, centerPoint[2] - size>>,
       <<centerPoint[1] + size, centerPoint[2] + size>>,
       <<centerPoint[1] - size, centerPoint[2] + size>>,
       <<centerPoint[1] - size, centerPoint[2] - size>> >>

\* geometry: the coordinates of geometry or area_boundary; hasCenter, form,
\* point: neighborhood_center or center
NeighborhoodItems ==
    [geometry : {Absent, <<"ringA">>}, hasCenter : BOOLEAN, form : Forms, point : Points]

\* the geometry the map callback of getNeighborhoodMetrics gives a record:
\* coordinates copied as received, or a ring made by the client
neighborhoodItemFeature(neighborhood, index) ==
    IF neighborhood.geometry # Absent
    THEN [type |-> "Polygon", copied |-> neighborhood.geometry, ring |-> << >>]
    ELSE IF neighborhood.hasCenter
    THEN [type |-> "Polygon", copied |-> Absent,
          ring |-> squareAround(neighborhoodCenterPoint(
                       centerAs(neighborhood.form, neighborhood.point), index))]
    ELSE LET c == indexPoint(index)
         IN  [type |-> "Polygon", copied |-> Absent,
              ring |-> << c, <<c[1] + 2, c[2]>>, <<c[1] + 2, c[2] + 2>>,
                          <<c[1], c[2] + 2>>, c >>]

DetailItems(k) ==
    CASE k = "density" -> DensityItems
      [] k = "clusters" -> ClusterItems
      [] k = "neighborhoods" -> NeighborhoodItems

DetailPayloads ==
    UNION {{[fn |-> k, items |-> its] :
               its \in UNION {[1..n -> DetailItems(k)] : n \in 1..MaxRecords}} : k \in Kinds}

NoDetail == [fn |-> "none", items |-> << >>]
NotMapped == [done |-> FALSE, list |-> << >>]

RecordIdle ==
    /\ detail = NoDetail
    /\ features = NotMapped

\* data.map((item, index) => ...) of the function the payload is answered to
MapRecords(k) ==
    /\ detail.fn = k
    /\ ~features.done
    /\ features' = [done |-> TRUE,
                  list |-> [i \in 1..Len(detail.items) |->
                      CASE k = "density" -> densityItemFeature(detail.items[i], i)
                        [] k = "clusters" -> clusterItemFeature(detail.items[i], i)
                        [] k = "neighborhoods" ->
                             neighborhoodItemFeature(detail.items[i], i)]]
    /\ UNCHANGED detail
    /\ UNCHANGED serviceVars
    /\ UNCHANGED cacheVars
    /\ UNCHANGED viewVars

(***************************************************************************)
(* The layer data hooks (useDensityGrid, useBusinessClusters,              *)
(* useNeighborhoodMetrics) and the query cache they configure.  A query is *)
(* one cache entry, found by its key; each hook observes the query of its  *)
(* current key.  Which layer is shown does not matter to the cache, so the *)
(* filter inputs are changed here without the layer buttons.               *)
(***************************************************************************)
FilterValues == {"A", "B"}

\* faulty variant: every hook is given the neighborhood score threshold
sharedFilter(h) == "neighborhoods"

\* useDensityGrid(minRating), useBusinessClusters(minClusterSize),
\* useNeighborhoodMetrics(minNeighborhoodScore): each hook gets its own filter
filterArgument(h) == h

\* faulty variant: the key holds a value that differs from render to render
keyPerRender(h, f, n) == <<h, f, n>>

\* faulty variant: the key does not hold the filter value
keyWithoutFilter(h, f, n) == <<h>>

\* queryKey: ['density-grid', minRating] and alike: the query's name and the
\* filter value, nothing of the render (n) that asks for it
queryKey(h, f, n) == <<h, f>>

NoKey == << >>

\* data of a query: the filter value it was fetched for and the features
Undefined == [defined |-> FALSE, filter |-> "none", value |-> << >>]
Ready(f, v) == [defined |-> TRUE, filter |-> f, value |-> v]

\* faulty variant: the hook has no placeholderData option
noPlaceholder(previousData) == Undefined

\* placeholderData: (previousData) => previousData
placeholderData(previousData) == previousData

\* retry: 1
retry == 1

\* queryFn: try { const data = await getX(filter); return data || []; }
\* catch (error) { return []; }  (null instead of [] for neighborhoods, which
\* the view treats alike)
queryFn(h, resp) == tryCatch(apiFunction(h, resp), << >>)

\* what the server does with a request in this part of the model
OkRecord == [isNull |-> FALSE, geom |-> "ok", center |-> "ok", attrs |-> TRUE]
CacheResponses == {[fate |-> "http", records |-> << >>],
                   [fate |-> "array", records |-> <<OkRecord>>]}

entryOf(qs, key) == CHOOSE e \in qs : e.key = key
hasEntry(qs, key) == \E e \in qs : e.key = key

\* a query created by its first observer: pending, its fetch started
newQuery(h, key, f) ==
    [key |-> key, kind |-> h, arg |-> f, status |-> "pending", data |-> Undefined,
     fetching |-> TRUE, stale |-> FALSE, attempts |-> 1, failures |-> 0]

\* The queries after hook h has come to observe key with filter value f.
\* A query that is fetching is joined; one with fresh data is read as it
\* is; one whose data is older than staleTime is fetched again in the
\* background, its data kept.
observe(qs, h, key, f) ==
    IF ~hasEntry(qs, key) THEN qs \cup {newQuery(h, key, f)}
    ELSE LET e == entryOf(qs, key)
         IN  IF e.fetching \/ ~e.stale THEN qs
             ELSE (qs \ {e}) \cup {[e EXCEPT !.fetching = TRUE, !.arg = f,
                                             !.attempts = 1, !.failures = 0]}

\* The query after one attempt of its fetch has ended with resp.  A queryFn
\* that rejects is called again (after retryDelay) while failureCount is
\* below retry, then the query's status becomes error; a queryFn that
\* resolves makes the query a success.
settle(e, resp) ==
    LET r == queryFn(e.kind, resp)
        failures == e.failures + (IF safeFetchThrows(resp) THEN 1 ELSE 0)
    IN  IF r.threw
        THEN IF e.attempts - 1 < retry
             THEN [e EXCEPT !.attempts = @ + 1, !.failures = failures]
             ELSE [e EXCEPT !.status = "error", !.fetching = FALSE, !.failures = failures]
        ELSE [e EXCEPT !.status = "success", !.data = Ready(e.arg, r.value),
                       !.fetching = FALSE, !.stale = FALSE, !.failures = failures]

dataAt(qs, key) == IF hasEntry(qs, key) THEN entryOf(qs, key).data ELSE Undefined

\* what useQuery returns as data to the component: the data of the observed
\* query, or the placeholder made from the last observed query that had data
exposedFrom(qs, key, lastKey) ==
    IF dataAt(qs, key).defined THEN dataAt(qs, key)
    ELSE placeholderData(dataAt(qs, lastKey))

\* isLoading of a hook: its query is pending and no placeholder stands in
hookIsLoading(qs, key, lastKey) == ~exposedFrom(qs, key, lastKey).defined

\* !data || data.length === 0
noData(qs, key, lastKey) ==
    ~exposedFrom(qs, key, lastKey).defined \/ Len(exposedFrom(qs, key, lastKey).value) = 0

\* faulty variant: the condition leaves the neighborhood data out
twoLayersEmpty ==
    \A h \in {"density", "clusters"} : noData(queries, observed[h], lastDefined[h])

\* (!densityData || ...) && (!clusterData || ...) && (!neighborhoodData || ...)
allLayersEmpty == \A h \in Kinds : noData(queries, observed[h], lastDefined[h])

\* isLoading = isDensityLoading || isClusterLoading || isNeighborhoodLoading
anyLoading == \E h \in Kinds : hookIsLoading(queries, observed[h], lastDefined[h])

CacheIdle ==
    /\ filterOf = [h \in Kinds |-> "A"]
    /\ observed = [h \in Kinds |-> NoKey]
    /\ lastDefined = [h \in Kinds |-> NoKey]
    /\ queries = {}
    /\ changes = 0
    /\ apiError = FALSE
    /\ errorEffectDue = FALSE

hookFilter(fs, h) == fs[filterArgument(h)]

\* the filter input of layer k is set to f: the component re-renders and
\* every hook whose key is a new one observes the query of that key (a
\* hook whose key is the same keeps its query and starts nothing)
SetFilter(k, f) ==
    /\ changes < MaxFilterChanges
    /\ f # filterOf[k]
    /\ changes' = changes + 1
    /\ filterOf' = [filterOf EXCEPT ![k] = f]
    /\ observed' = [h \in Kinds |-> queryKey(h, hookFilter(filterOf', h), changes')]
    /\ queries' = UNION {IF observed'[h] = observed[h]
                         THEN {e \in queries : e.kind = h}
                         ELSE observe({e \in queries : e.kind = h}, h, observed'[h],
                                      hookFilter(filterOf', h)) : h \in Kinds}
    /\ lastDefined' = [h \in Kinds |->
                         IF dataAt(queries, observed'[h]).defined
                         THEN observed'[h] ELSE lastDefined[h]]
    /\ errorEffectDue' = (errorEffectDue \/ \E h \in Kinds :
                            exposedFrom(queries', observed'[h], lastDefined'[h])
                              # exposedFrom(queries, observed[h], lastDefined[h]))
    /\ UNCHANGED apiError
    /\ UNCHANGED serviceVars
    /\ UNCHANGED recordVars
    /\ UNCHANGED viewVars

\* one attempt of a fetch in flight ends
FetchSettle(e, resp) ==
    /\ e \in queries
    /\ e.fetching
    /\ queries' = (queries \ {e}) \cup {settle(e, resp)}
    /\ lastDefined' = [h \in Kinds |->
                         IF e.key = observed[h] /\ settle(e, resp).data.defined
                         THEN e.key ELSE lastDefined[h]]
    /\ errorEffectDue' = (errorEffectDue \/ \E h \in Kinds :
                            \/ e.key \in {observed[h], lastDefined[h]}
                            \/ exposedFrom(queries', observed[h], lastDefined'[h])
                                 # exposedFrom(queries, observed[h], lastDefined[h]))
    /\ UNCHANGED <<filterOf, observed, changes, apiError>>
    /\ UNCHANGED serviceVars
    /\ UNCHANGED recordVars
    /\ UNCHANGED viewVars

\* two minutes have passed since the query's data arrived
BecomeStale(e) ==
    /\ e \in queries
    /\ e.status = "success"
    /\ ~e.fetching
    /\ ~e.stale
    /\ queries' = (queries \ {e}) \cup {[e EXCEPT !.stale = TRUE]}
    /\ UNCHANGED <<filterOf, observed, lastDefined, changes, apiError, errorEffectDue>>
    /\ UNCHANGED serviceVars
    /\ UNCHANGED recordVars
    /\ UNCHANGED viewVars

\* the apiError effect (dependencies: the three data values and isLoading)
ApiErrorEffect ==
    /\ errorEffectDue
    /\ errorEffectDue' = FALSE
    /\ apiError' = IF ~anyLoading THEN allLayersEmpty ELSE apiError
    /\ UNCHANGED <<filterOf, observed, lastDefined, queries, changes>>
    /\ UNCHANGED serviceVars
    /\ UNCHANGED recordVars
    /\ UNCHANGED viewVars

(***************************************************************************)
(* cleanupMap: the values it leaves in the map handle, the flags and the   *)
(* map's layers and sources.                                               *)
(***************************************************************************)
\* the handle, the flags and the map as they are (nothing is cleaned up)
mapAsIs ==
    [mapRef |-> mapRef, isMapLoaded |-> isMapLoaded, isMapInitialized |-> isMapInitialized,
     mapSourcesReady |-> mapSourcesReady, showMap |-> showMap,
     isLayerTransitioning |-> isLayerTransitioning,
     visible |-> visible, sources |-> sources]

cleanupMap ==
    IF mapRef
    THEN [mapRef |-> FALSE, isMapLoaded |-> FALSE, isMapInitialized |-> FALSE,
          mapSourcesReady |-> FALSE, showMap |-> FALSE, isLayerTransitioning |-> FALSE,
          visible |-> NoneVisible, sources |-> [n \in SourceNames |-> Unregistered]]
    ELSE mapAsIs

(***************************************************************************)
(* Initial state: the first render is committed, no effect has run.        *)
(***************************************************************************)
ViewInit ==
    /\ mounted = TRUE
    /\ initDep = "null"
    /\ cleanupRegistered = FALSE
    /\ mapsCreated = 0
    /\ readyPending = 0
    /\ mapRef = FALSE
    /\ isMapLoaded = FALSE
    /\ isMapInitialized = FALSE
    /\ mapSourcesReady = FALSE
    /\ showMap = FALSE
    /\ isLayerTransitioning = FALSE
    /\ activeLayer = "density"
    /\ clusterCategory = ""
    /\ availableCategories = {}
    /\ visible = NoneVisible
    /\ sources = [n \in SourceNames |-> Unregistered]
    /\ data = [k \in Kinds |-> 0]
    /\ fetching = Kinds
    /\ pendingEffects = EffectNames
    /\ settleTimer = FALSE
    /\ transitionTimers = << >>
    /\ retries = {}
    /\ writeLost = FALSE
    /\ switches = 0

Init ==
    /\ ViewInit
    /\ ServiceIdle
    /\ CacheIdle
    /\ RecordIdle

(***************************************************************************)
(* The map initialisation effect (dependency array [mapContainer.current]).*)
(* It runs after the mount and once more after the first re-render, when   *)
(* the dependency is seen to have changed from null to the container; a    *)
(* re-run first calls the cleanup the previous run returned.               *)
(***************************************************************************)
InitEffect ==
    /\ mounted
    /\ "init" \in pendingEffects
    /\ LET c == IF cleanupRegistered THEN cleanupMap ELSE mapAsIs
           early == initReturnsEarly(c.mapRef)
       IN  /\ mapRef' = c.mapRef
           /\ isMapLoaded' = c.isMapLoaded
           /\ mapSourcesReady' = c.mapSourcesReady
           /\ showMap' = c.showMap
           /\ isLayerTransitioning' = c.isLayerTransitioning
           /\ visible' = c.visible
           /\ sources' = c.sources
           /\ isMapInitialized' = IF early THEN c.isMapInitialized ELSE TRUE
           /\ mapsCreated' = IF early THEN mapsCreated ELSE mapsCreated + 1
           /\ readyPending' = IF early THEN readyPending ELSE readyPending + 1
           /\ cleanupRegistered' = ~early
           /\ pendingEffects' = (pendingEffects \ {"init"})
                                  \cup (IF initDep = "null" THEN {"init"} ELSE {})
                                  \cup (IF c.isMapLoaded # isMapLoaded
                                        THEN dependsOnMapLoaded ELSE {})
    /\ initDep' = "div"
    /\ UNCHANGED <<mounted, activeLayer, clusterCategory, availableCategories, data,
                   fetching, settleTimer, transitionTimers, retries, writeLost, switches>>
    /\ UNCHANGED dataLayerVars

(***************************************************************************)
(* The map's 'load' handler.  The ready signal needs the style download,   *)
(* so it arrives after the re-render that the init effect scheduled.       *)
(***************************************************************************)
\* faulty variant: the handler shows the map at once, without the settle delay
showsAtOnce(m) == [isMapLoaded |-> TRUE, mapSourcesReady |-> TRUE, showMap |-> TRUE]

\* faulty variant: the handler does not call setMapSourcesReady
loadedWithoutSources(m) ==
    [isMapLoaded |-> TRUE, mapSourcesReady |-> m.mapSourcesReady, showMap |-> m.showMap]

\* the state setters of the load handler: setIsMapLoaded(true);
\* setMapSourcesReady(true); showMap is left to the settle timer
onLoad(m) == [isMapLoaded |-> TRUE, mapSourcesReady |-> TRUE, showMap |-> m.showMap]

MapLoad ==
    /\ readyPending > 0
    /\ "init" \notin pendingEffects
    /\ readyPending' = readyPending - 1
    /\ sources' = [n \in SourceNames |-> EmptyCollection]
    /\ visible' = initialVisibility
    /\ mapRef' = TRUE
    /\ isMapLoaded' = IF mounted THEN onLoad(mapAsIs).isMapLoaded ELSE isMapLoaded
    /\ mapSourcesReady' = IF mounted THEN onLoad(mapAsIs).mapSourcesReady ELSE mapSourcesReady
    /\ showMap' = IF mounted THEN onLoad(mapAsIs).showMap ELSE showMap
    /\ pendingEffects' = IF mounted /\ ~isMapLoaded
                         THEN pendingEffects \cup dependsOnMapLoaded
                         ELSE pendingEffects
    /\ settleTimer' = TRUE
    /\ UNCHANGED <<mounted, initDep, cleanupRegistered, mapsCreated, isMapInitialized,
                   isLayerTransitioning, activeLayer, clusterCategory,
                   availableCategories, data, fetching, transitionTimers, retries, writeLost,
                   switches>>
    /\ UNCHANGED dataLayerVars

\* setTimeout(() => setShowMap(true), 500)
SettleTimer ==
    /\ settleTimer
    /\ settleTimer' = FALSE
    /\ showMap' = IF mounted THEN TRUE ELSE showMap
    /\ pendingEffects' = IF mounted /\ ~showMap
                         THEN pendingEffects \cup dependsOnShowMap
                         ELSE pendingEffects
    /\ UNCHANGED <<mounted, initDep, cleanupRegistered, mapsCreated, readyPending, mapRef,
                   isMapLoaded, isMapInitialized, mapSourcesReady, isLayerTransitioning,
                   activeLayer, clusterCategory, availableCategories, visible, sources,
                   data, fetching, transitionTimers, retries, writeLost, switches>>
    /\ UNCHANGED dataLayerVars

(***************************************************************************)
(* View teardown: React calls the cleanup that the last run of the init    *)
(* effect returned, if it returned one; no effect runs afterwards, the     *)
(* state setters of an unmounted view do nothing, and the hooks' data and  *)
(* the filter state are gone with the view.                                *)
(***************************************************************************)
Teardown ==
    /\ mounted
    /\ mounted' = FALSE
    /\ pendingEffects' = {}
    /\ cleanupRegistered' = FALSE
    /\ LET c == IF cleanupRegistered THEN cleanupMap ELSE mapAsIs
       IN  /\ mapRef' = c.mapRef
           /\ isMapLoaded' = c.isMapLoaded
           /\ isMapInitialized' = c.isMapInitialized
           /\ mapSourcesReady' = c.mapSourcesReady
           /\ showMap' = c.showMap
           /\ isLayerTransitioning' = c.isLayerTransitioning
           /\ visible' = c.visible
           /\ sources' = c.sources
    /\ data' = [k \in Kinds |-> 0]
    /\ fetching' = {}
    /\ clusterCategory' = ""
    /\ availableCategories' = {}
    /\ UNCHANGED <<initDep, mapsCreated, readyPending, activeLayer, settleTimer,
                   transitionTimers, retries, writeLost, switches>>
    /\ UNCHANGED dataLayerVars

\* faulty variant: only the hook of the active layer is enabled
enabledWhenActive(k, layer) == k = layer

\* the three hooks are called on every render with their filter value alone
\* and their useQuery options have no `enabled`: each is enabled whatever the
\* active layer is
hookEnabled(k, layer) == TRUE

(***************************************************************************)
(* MapLayerControls onChange(layer).  Its timer callback calls the         *)
(* forceRefreshSources of the render the handler belongs to, so it keeps   *)
(* that render's isMapLoaded and activeLayer.                              *)
(***************************************************************************)
SetActiveLayer(layer) ==
    /\ controlsRendered
    /\ switches < MaxSwitches
    /\ switches' = switches + 1
    /\ IF isSameLayer(layer)
       THEN UNCHANGED <<isLayerTransitioning, visible, activeLayer, transitionTimers,
                        pendingEffects>>
       ELSE /\ isLayerTransitioning' = TRUE
            /\ visible' = hideCurrentLayer(activeLayer)
            /\ activeLayer' = layer
            /\ transitionTimers' = Append(transitionTimers,
                    [isMapLoaded |-> isMapLoaded, activeLayer |-> activeLayer])
            /\ pendingEffects' = pendingEffects \cup dependsOnActiveLayer
                    \cup (IF isLayerTransitioning THEN {} ELSE dependsOnTransitioning)
    /\ fetching' = fetching \cup {k \in Kinds : hookEnabled(k, activeLayer')
                                                  /\ ~hookEnabled(k, activeLayer)}
    /\ UNCHANGED <<mounted, initDep, cleanupRegistered, mapsCreated, readyPending, mapRef,
                   isMapLoaded, isMapInitialized, mapSourcesReady, showMap,
                   clusterCategory, availableCategories, sources, data,
                   settleTimer, retries, writeLost>>
    /\ UNCHANGED dataLayerVars

\* setTimeout(() => { forceRefreshSources(); setIsLayerTransitioning(false); }, 300)
TransitionTimer ==
    /\ transitionTimers # << >>
    /\ LET t == Head(transitionTimers)
       IN  visible' = forceRefreshSources(t.isMapLoaded, t.activeLayer)
    /\ transitionTimers' = Tail(transitionTimers)
    /\ isLayerTransitioning' = IF mounted THEN FALSE ELSE isLayerTransitioning
    /\ pendingEffects' = IF mounted /\ isLayerTransitioning
                         THEN pendingEffects \cup dependsOnTransitioning
                         ELSE pendingEffects
    /\ UNCHANGED <<mounted, initDep, cleanupRegistered, mapsCreated, readyPending, mapRef,
                   isMapLoaded, isMapInitialized, mapSourcesReady, showMap, activeLayer,
                   clusterCategory, availableCategories, sources, data, fetching,
                   settleTimer, retries, writeLost, switches>>
    /\ UNCHANGED dataLayerVars

\* the refresh button: onClick={forceRefreshSources} of the current render
ManualRefresh ==
    /\ controlsRendered
    /\ visible' = forceRefreshSources(isMapLoaded, activeLayer)
    /\ UNCHANGED <<mounted, initDep, cleanupRegistered, mapsCreated, readyPending, mapRef,
                   isMapLoaded, isMapInitialized, mapSourcesReady, showMap,
                   isLayerTransitioning, activeLayer, clusterCategory,
                   availableCategories, sources, data, fetching, pendingEffects,
                   settleTimer, transitionTimers, retries, writeLost, switches>>
    /\ UNCHANGED dataLayerVars

\* the layer visibility effect
layerVisibilityEffect ==
    IF ~mapRef \/ ~isMapLoaded \/ ~showMap \/ isLayerTransitioning
    THEN visible
    ELSE onlyVisible(activeLayer)

(***************************************************************************)
(* The three data effects (density, clusters, neighborhoods).  The retry   *)
(* interval an effect starts keeps the flags and the safelyUpdateMapSource *)
(* of the render in which the effect ran.                                  *)
(***************************************************************************)
retryClosure(k, fc) ==
    [layer |-> k, fc |-> fc, isMapLoaded |-> isMapLoaded,
     mapSourcesReady |-> mapSourcesReady, isLayerTransitioning |-> isLayerTransitioning]

\* the data effect of layer k writes (it is due, passes its guard and has
\* something to set)
effectWrites(k) ==
    k \in pendingEffects /\ ~dataEffectReturnsEarly(k) /\ layerUpdate(k).write

\* the data effect of layer k run on the sources srcs: the sources it
\* leaves and whether its safelyUpdateMapSource call returned false
dataEffect(k, srcs, setDataOk) ==
    IF effectWrites(k)
    THEN LET r == safelyUpdateMapSource(isMapLoaded, mapSourcesReady, srcs,
                                        sourceName(k), layerUpdate(k).fc, setDataOk)
         IN  [sources |-> r.sources, failed |-> ~r.updated]
    ELSE [sources |-> srcs, failed |-> FALSE]

(***************************************************************************)
(* Cluster categories.                                                     *)
(***************************************************************************)
Categories == {"Food"}

categoriesOf(d) == UNION {d[i].categories : i \in 1..Len(d)}

\* the availableCategories effect
categoriesEffect ==
    IF Len(hookData("clusters")) > 0
    THEN categoriesOf(hookData("clusters"))
    ELSE availableCategories

(***************************************************************************)
(* React flushes the effects of a commit in one task, in the order of      *)
(* their declaration: categories, density, clusters, neighborhoods,        *)
(* visibility.  (The init effect, declared before the data effects, is the *)
(* action InitEffect and runs first.)  ok[k] is whether the setData call   *)
(* of the data effect of layer k returns.                                  *)
(***************************************************************************)
FlushEffects ==
    /\ mounted
    /\ pendingEffects # {}
    /\ "init" \notin pendingEffects
    /\ pendingEffects' = {}
    /\ availableCategories' = IF "categories" \in pendingEffects
                              THEN categoriesEffect ELSE availableCategories
    /\ visible' = IF "visibility" \in pendingEffects
                  THEN layerVisibilityEffect ELSE visible
    /\ \E ok \in [Kinds -> BOOLEAN] :
         LET d == dataEffect("density", sources, ok["density"])
             c == dataEffect("clusters", d.sources, ok["clusters"])
             n == dataEffect("neighborhoods", c.sources, ok["neighborhoods"])
             failed == {k \in Kinds :
                          CASE k = "density" -> d.failed
                            [] k = "clusters" -> c.failed
                            [] k = "neighborhoods" -> n.failed}
             started == {retryClosure(k, layerUpdate(k).fc) :
                           k \in {j \in failed : layerUpdate(j).retry}}
         IN  /\ \A k \in Kinds : ~ok[k] => effectWrites(k)
             /\ Cardinality(retries \cup started) <= MaxRetries
             /\ sources' = n.sources
             /\ retries' = retries \cup started
             /\ writeLost' = (writeLost \/ \E k \in failed : ~layerUpdate(k).retry)
    /\ UNCHANGED <<mounted, initDep, cleanupRegistered, mapsCreated, readyPending, mapRef,
                   isMapLoaded, isMapInitialized, mapSourcesReady, showMap,
                   isLayerTransitioning, activeLayer, clusterCategory, data, fetching,
                   settleTimer, transitionTimers, switches>>
    /\ UNCHANGED dataLayerVars

\* faulty variant: a successful retry does not clear its interval
neverCleared(intervals, r, retrySuccess) == intervals

\* if (retrySuccess) { clearInterval(retryInterval); }
clearOnSuccess(intervals, r, retrySuccess) ==
    IF retrySuccess THEN intervals \ {r} ELSE intervals

\* one tick of a retry interval (every 500 ms)
RetryTick(r) ==
    /\ r \in retries
    /\ IF mapRef /\ r.isMapLoaded /\ r.mapSourcesReady /\ ~r.isLayerTransitioning
       THEN \E setDataOk \in BOOLEAN :
              LET res == safelyUpdateMapSource(r.isMapLoaded, r.mapSourcesReady, sources,
                                               sourceName(r.layer), r.fc, setDataOk)
              IN  /\ sources' = res.sources
                  /\ retries' = clearOnSuccess(retries, r, res.updated)
       ELSE UNCHANGED <<sources, retries>>
    /\ UNCHANGED <<mounted, initDep, cleanupRegistered, mapsCreated, readyPending, mapRef,
                   isMapLoaded, isMapInitialized, mapSourcesReady, showMap,
                   isLayerTransitioning, activeLayer, clusterCategory,
                   availableCategories, visible, data, fetching, pendingEffects,
                   settleTimer, transitionTimers, writeLost, switches>>
    /\ UNCHANGED dataLayerVars

\* setTimeout(() => clearInterval(retryInterval), 5000)
RetryExpire(r) ==
    /\ r \in retries
    /\ retries' = retries \ {r}
    /\ writeLost' = TRUE
    /\ UNCHANGED <<mounted, initDep, cleanupRegistered, mapsCreated, readyPending, mapRef,
                   isMapLoaded, isMapInitialized, mapSourcesReady, showMap,
                   isLayerTransitioning, activeLayer, clusterCategory,
                   availableCategories, visible, sources, data, fetching,
                   pendingEffects, settleTimer, transitionTimers, switches>>
    /\ UNCHANGED dataLayerVars

\* ClusterFilters: the category select, rendered while clusters is the active layer
SetClusterCategory(c) ==
    /\ controlsRendered
    /\ activeLayer = "clusters"
    /\ c \in availableCategories \cup {""}
    /\ c # clusterCategory
    /\ clusterCategory' = c
    /\ pendingEffects' = pendingEffects \cup dependsOnCategory
    /\ UNCHANGED <<mounted, initDep, cleanupRegistered, mapsCreated, readyPending, mapRef,
                   isMapLoaded, isMapInitialized, mapSourcesReady, showMap,
                   isLayerTransitioning, activeLayer, availableCategories, visible,
                   sources, data, fetching, settleTimer, transitionTimers, retries,
                   writeLost, switches>>
    /\ UNCHANGED dataLayerVars

(***************************************************************************)
(* The layer data hooks.                                                   *)
(***************************************************************************)
\* fetches started by filter changes so far (resolved or in flight)
refetchesOf(k) ==
    (IF data[k] > 1 THEN data[k] - 1 ELSE 0)
      + (IF k \in fetching /\ data[k] > 0 THEN 1 ELSE 0)

refetches == refetchesOf("density") + refetchesOf("clusters") + refetchesOf("neighborhoods")

\* the filter of the active layer is moved to a value not fetched before:
\* its hook starts a fetch for the new query key
ChangeFilter(k) ==
    /\ controlsRendered
    /\ activeLayer = k
    /\ k \notin fetching
    /\ refetches < MaxRefetches
    /\ fetching' = fetching \cup {k}
    /\ UNCHANGED <<mounted, initDep, cleanupRegistered, mapsCreated, readyPending, mapRef,
                   isMapLoaded, isMapInitialized, mapSourcesReady, showMap,
                   isLayerTransitioning, activeLayer, clusterCategory,
                   availableCategories, visible, sources, data, pendingEffects,
                   settleTimer, transitionTimers, retries, writeLost, switches>>
    /\ UNCHANGED dataLayerVars

\* the fetch of layer k resolves and its hook exposes the new data
FetchResolve(k) ==
    /\ mounted
    /\ k \in fetching
    /\ fetching' = fetching \ {k}
    /\ data' = [data EXCEPT ![k] = @ + 1]
    /\ pendingEffects' = pendingEffects \cup dependsOnData(k)
    /\ UNCHANGED <<mounted, initDep, cleanupRegistered, mapsCreated, readyPending, mapRef,
                   isMapLoaded, isMapInitialized, mapSourcesReady, showMap,
                   isLayerTransitioning, activeLayer, clusterCategory,
                   availableCategories, visible, sources, settleTimer,
                   transitionTimers, retries, writeLost, switches>>
    /\ UNCHANGED dataLayerVars

(***************************************************************************)
(* The specification.                                                      *)
(***************************************************************************)
Next ==
    \/ InitEffect
    \/ MapLoad
    \/ SettleTimer
    \/ Teardown
    \/ \E layer \in Kinds : SetActiveLayer(layer)
    \/ TransitionTimer
    \/ ManualRefresh
    \/ FlushEffects
    \/ \E r \in retries : RetryTick(r)
    \/ \E r \in retries : RetryExpire(r)
    \/ \E c \in Categories \cup {""} : SetClusterCategory(c)
    \/ \E k \in Kinds : ChangeFilter(k)
    \/ \E k \in Kinds : FetchResolve(k)

Spec == Init /\ [][Next]_vars

(***************************************************************************)
(* The program's scheduling: React flushes the effects of a commit, a      *)
(* timer that was set fires, the map that was created emits its 'load'     *)
(* event, and a retry interval is cleared after five seconds.              *)
(***************************************************************************)
Scheduling ==
    /\ WF_vars(InitEffect)
    /\ WF_vars(MapLoad)
    /\ WF_vars(SettleTimer)
    /\ WF_vars(TransitionTimer)
    /\ WF_vars(FlushEffects)
    /\ WF_vars(\E r \in retries : RetryExpire(r))

\* the view used through its layer buttons only
LoadNext ==
    \/ InitEffect
    \/ MapLoad
    \/ SettleTimer
    \/ Teardown
    \/ \E layer \in Kinds : SetActiveLayer(layer)
    \/ TransitionTimer
    \/ FlushEffects
    \/ \E r \in retries : RetryTick(r)
    \/ \E r \in retries : RetryExpire(r)
    \/ \E k \in Kinds : FetchResolve(k)

LoadSpec == Init /\ [][LoadNext]_vars /\ Scheduling

\* the view used through its layer buttons and the active layer's filter inputs
SwitchNext ==
    \/ LoadNext
    \/ \E k \in Kinds : ChangeFilter(k)

SwitchSpec == Init /\ [][SwitchNext]_vars /\ Scheduling

\* the data access client on its own: the server's answer is any response
\* within the bounds, one function is applied to it, and its value is pushed
ApiInit ==
    /\ ViewInit
    /\ request \in Responses
    /\ returned = NotReturned
    /\ pushed = NotPushed
    /\ CacheIdle
    /\ RecordIdle

ApiNext ==
    \/ \E k \in Kinds : Call(k)
    \/ PushReturned

ApiSpec == ApiInit /\ [][ApiNext]_vars

\* the hooks and their cache on their own: the component has mounted, each
\* hook observes the query of the initial filter value, whose fetch is on
CacheInit ==
    /\ ViewInit
    /\ ServiceIdle
    /\ filterOf = [h \in Kinds |-> "A"]
    /\ observed = [h \in Kinds |-> queryKey(h, "A", 0)]
    /\ lastDefined = [h \in Kinds |-> NoKey]
    /\ queries = {newQuery(h, queryKey(h, "A", 0), "A") : h \in Kinds}
    /\ changes = 0
    /\ apiError = FALSE
    /\ errorEffectDue = TRUE
    /\ RecordIdle

CacheNext ==
    \/ \E k \in Kinds, f \in FilterValues : SetFilter(k, f)
    \/ \E e \in queries, resp \in CacheResponses : FetchSettle(e, resp)
    \/ \E e \in queries : BecomeStale(e)
    \/ ApiErrorEffect

CacheSpec == CacheInit /\ [][CacheNext]_vars

\* the map callbacks on their own: a payload of one to MaxRecords records
\* has been answered to one of the three functions
RecordInit ==
    /\ ViewInit
    /\ ServiceIdle
    /\ CacheIdle
    /\ detail \in DetailPayloads
    /\ features = NotMapped

RecordNext == \E k \in Kinds : MapRecords(k)

RecordSpec == RecordInit /\ [][RecordNext]_vars

TypeOK ==
    /\ mounted \in BOOLEAN
    /\ activeLayer \in Kinds
    /\ visible \in [Kinds -> BOOLEAN]
    /\ DOMAIN sources = SourceNames
    /\ data \in [Kinds -> 0..(MaxRefetches + 1)]
    /\ fetching \subseteq Kinds
    /\ pendingEffects \subseteq EffectNames
    /\ Len(transitionTimers) <= MaxSwitches
    /\ Cardinality(retries) <= MaxRetries
    /\ switches \in 0..MaxSwitches

(***************************************************************************)
(* Properties.                                                             *)
(***************************************************************************)
visibleKinds == {k \in Kinds : visible[k]}

\* C1: in every reachable state at most one layer kind is visible, whatever
\* the interleaving of layer switches, transition timers, the visibility
\* effect, manual refreshes and data pushes.
C1_AtMostOneVisible == Cardinality(visibleKinds) <= 1

\* a stale transition timer has shown a kind that is not the active one
C1_Witness ==
    /\ mapRef
    /\ switches > 0
    /\ \E k \in Kinds : visible[k] /\ k # activeLayer

\* C2: after any sequence of setActiveLayer calls, rapid ones included, once
\* every transition delay has run exactly one layer kind is visible.
C2_ExactlyOneAfterDelays ==
    (mapRef /\ switches > 0 /\ transitionTimers = << >>)
        => Cardinality(visibleKinds) = 1

\* two rapid switches, both delays over, every effect flushed
C2_Witness ==
    /\ mounted /\ mapRef
    /\ switches = 2
    /\ activeLayer = "neighborhoods"
    /\ transitionTimers = << >>
    /\ pendingEffects = {}
    /\ visible["clusters"]

\* C3: setActiveLayer(k) with k already the active layer does nothing: the
\* visibility, the active layer and the transition flag stay as they are
\* and no timer is scheduled.
C3_SameLayerNoOp ==
    [][(switches' # switches /\ activeLayer' = activeLayer)
          => UNCHANGED <<visible, activeLayer, isLayerTransitioning, transitionTimers,
                         pendingEffects>>]_vars

\* the first call made chose the layer that was active
C3_Witness == switches = 1 /\ activeLayer = "density" /\ mapRef

\* C4: at most one map instance is created per mounted view; a re-entrant
\* run of the initialisation creates nothing.
C4_AtMostOneInstance == mapsCreated <= 1 /\ readyPending <= 1

\* the initialisation effect has run a second time
C4_Witness ==
    /\ mapsCreated = 1
    /\ initDep = "div"
    /\ "init" \notin pendingEffects
    /\ mounted

\* C5: from every phase, view teardown releases the map instance and resets
\* the phase to Uninitialized: no instance, and isMapLoaded,
\* isMapInitialized, mapSourcesReady, showMap and isLayerTransitioning false.
C5_TeardownResets ==
    ~mounted => /\ ~mapRef
                /\ ~isMapLoaded /\ ~isMapInitialized /\ ~mapSourcesReady
                /\ ~showMap /\ ~isLayerTransitioning

beforeSourcesReady == ~mapRef \/ ~isMapLoaded \/ ~mapSourcesReady

\* C6: before SourcesReady a source update attempt for any layer changes no
\* source content and reports that nothing was updated, and no step other
\* than the ready signal's registration of the sources changes a source.
C6_NoUpdateBeforeReady ==
    /\ [](beforeSourcesReady =>
            \A k \in Kinds : \A v \in 1..(MaxRefetches + 1) : \A setDataOk \in BOOLEAN :
                LET r == safelyUpdateMapSource(isMapLoaded, mapSourcesReady, sources,
                                               sourceName(k), ResultAt(k, v), setDataOk)
                IN  ~r.updated /\ r.sources = sources)
    /\ [][(beforeSourcesReady /\ readyPending' = readyPending) => sources' = sources]_vars

\* two layers' data resolved and their effects ran before the ready signal
C6_Witness ==
    /\ mounted /\ beforeSourcesReady
    /\ mapsCreated = 1
    /\ data["density"] = 1 /\ data["neighborhoods"] = 1
    /\ pendingEffects = {}

\* C8: while the transition flag is set no data is written into any source,
\* neither by a data effect nor by a retry scheduled earlier.
C8_NoWriteWhileTransitioning ==
    [][isLayerTransitioning => sources' = sources]_vars

\* the valid features of the current data of layer k, as its effect pushes them
Expected(k) == layerUpdate(k).fc

holdsExpected(k) == sources[sourceName(k)] = Expected(k)

\* C7: a fetch that completes before the map is ready is not lost: if the
\* data of a layer resolves with a valid feature before the ready signal,
\* then the map becomes ready and, with no transition in progress, the
\* layer's source eventually holds exactly the valid features of that data
\* (unless the view is torn down or the map refuses the write for the whole
\* retry window).
C7_EarlyFetchNotLost ==
    \A k \in Kinds :
        (mounted /\ ~isMapLoaded /\ data[k] = 1 /\ Expected(k) # EmptyCollection)
            ~> \/ ~mounted
               \/ writeLost
               \/ (isMapLoaded /\ mapSourcesReady /\ ~isLayerTransitioning
                     /\ data[k] = 1 /\ holdsExpected(k))

\* neighborhood data resolved and its effect returned before the ready signal
C7_Witness ==
    /\ mounted /\ ~isMapLoaded /\ readyPending = 1
    /\ data["neighborhoods"] = 1
    /\ Expected("neighborhoods") # EmptyCollection
    /\ "neighborhoods" \notin pendingEffects
    /\ sources["neighborhoods"] = Unregistered

\* the newest data of layer k, with a valid feature, is waiting during a
\* transition: its effect is due and its source does not hold it
pushDeferred(k) ==
    /\ mounted /\ isLayerTransitioning
    /\ data[k] = MaxRefetches + 1
    /\ Expected(k) # EmptyCollection
    /\ k \in pendingEffects
    /\ ~holdsExpected(k)

\* C9: layer data that resolves or changes while a transition is in
\* progress is deferred, not dropped: after the flag clears the source of
\* every layer comes to hold the valid features of the layer's current data
\* (unless the view is torn down or the map refuses a write for the whole
\* retry window).
C9_DeferredNotDropped ==
    \A k \in Kinds :
        pushDeferred(k) ~> [](~mounted \/ writeLost \/ holdsExpected(k))

\* the initial load is over: the three fetches have completed, the map is
\* ready and settled, every effect has run, no retry is outstanding and the
\* user has neither switched the layer nor changed a filter
initialLoadDone ==
    /\ mounted /\ isMapLoaded /\ mapSourcesReady /\ showMap
    /\ fetching = {}
    /\ pendingEffects = {}
    /\ retries = {} /\ ~writeLost
    /\ switches = 0 /\ refetches = 0

\* C10: in whatever order the density, cluster and neighborhood fetches
\* complete, relative to each other, to the ready signal and to the settle
\* delay, the final contents of the three sources are the same: each source
\* holds the valid features of its own layer's data.
C10_AnyArrivalOrder ==
    initialLoadDone => \A k \in Kinds : holdsExpected(k)

\* the initial load is over and the three sources are filled
C10_Witness ==
    /\ initialLoadDone
    /\ \A k \in Kinds : sources[sourceName(k)] # EmptyCollection

(***************************************************************************)
(* Properties of the data access client (checked under ApiSpec).           *)
(***************************************************************************)
called(k) == returned.fn = k
answeredArray == request.fate = "array" /\ Len(request.records) > 0

\* C11: getDensityGrid, getBusinessClusters and getNeighborhoodMetrics never
\* raise to their caller: whatever the server does, the call returns, and on
\* a network failure, a timeout, a status that is not ok, a body that does
\* not parse and a payload that is not an array it returns the empty list
\* (density, clusters) or the built-in fallback set (neighborhoods).
C11_NeverRaises ==
    returned # NotReturned =>
        /\ ~returned.threw
        /\ request.fate # "array" =>
              returned.value = IF called("neighborhoods")
                               THEN createFallbackNeighborhoods ELSE << >>

\* a request that timed out has been answered with the fallback set
C11_Witness ==
    /\ called("neighborhoods")
    /\ request.fate = "timeout"
    /\ returned.value = createFallbackNeighborhoods

\* C12: for a non-empty array answered to a density or cluster request, the
\* number of features returned equals the number of records received,
\* whatever mix of well-formed, malformed and null records it holds.
C12_CountPreserved ==
    (answeredArray /\ (called("density") \/ called("clusters")))
        => Len(returned.value) = Len(request.records)

\* a null record and a record without its required fields were both replaced
C12_Witness ==
    /\ called("density")
    /\ Len(request.records) = MaxRecords
    /\ request.records[1] = NullRecord
    /\ ~request.records[2].isNull /\ ~request.records[2].attrs
    /\ Len(returned.value) = MaxRecords

idsOf(fs) == {fs[i].id : i \in 1..Len(fs)}

\* nothing in the record gives valid coordinates: it is null, or neither its
\* own coordinates nor its center are usable
noValidGeometry(r) == r.isNull \/ (r.geom # "ok" /\ r.center # "ok")

\* C13 as claimed: no feature made from an invalid neighborhood record is
\* part of what is pushed, and the fallback set is returned only when no
\* record of the response is valid.
C13_InvalidDropped ==
    (answeredArray /\ pushed.fn = "neighborhoods") =>
        /\ \A i \in 1..Len(request.records) :
              noValidGeometry(request.records[i]) => RecordIds[i] \notin idsOf(pushed.fc)
        /\ returned.value = createFallbackNeighborhoods =>
              \A i \in 1..Len(request.records) : noValidGeometry(request.records[i])

nonNullIds(records) == {RecordIds[i] : i \in {j \in 1..Len(records) : ~records[j].isNull}}

\* C13: of a non-empty neighborhood response exactly the null records are
\* dropped by getNeighborhoodMetrics: every other record yields one feature,
\* with a generated polygon when it has neither coordinates nor a center,
\* and the fallback set is returned exactly when every record was null.
C13_OnlyNullDropped ==
    (answeredArray /\ called("neighborhoods")) =>
        /\ returned.value # createFallbackNeighborhoods =>
              /\ idsOf(returned.value) = nonNullIds(request.records)
              /\ Len(returned.value) = Cardinality(nonNullIds(request.records))
              /\ \A i \in 1..Len(returned.value) :
                    \A j \in 1..Len(request.records) :
                       (returned.value[i].id = RecordIds[j]
                          /\ request.records[j].geom = "absent"
                          /\ request.records[j].center = "absent")
                       => returned.value[i].geom = "ok"
        /\ returned.value = createFallbackNeighborhoods
              <=> \A i \in 1..Len(request.records) : request.records[i].isNull

\* a null record was dropped and a record without any geometry was kept
C13_Witness ==
    /\ called("neighborhoods")
    /\ Len(request.records) = MaxRecords
    /\ request.records[1] = NullRecord
    /\ request.records[2].geom = "absent" /\ request.records[2].center = "absent"
    /\ ~request.records[2].isNull
    /\ idsOf(returned.value) = {RecordIds[2]}

\* C14: getNeighborhoodMetrics returns a non-empty list for every outcome,
\* so once the neighborhood load has completed and its data effect has run
\* the neighborhood layer holds at least one feature.
C14_NeverEmpty ==
    /\ called("neighborhoods") => Len(returned.value) > 0
    /\ pushed.fn = "neighborhoods" => (pushed.write /\ Len(pushed.fc) > 0)

\* C15: no feature whose coordinates are missing, have no ring or point, or
\* hold a value that is not a finite number is part of the content a data
\* effect writes to a map source, for any of the three layer kinds.
C15_OnlyValidGeometryWritten ==
    pushed.write => \A i \in 1..Len(pushed.fc) : pushed.fc[i].geom = "ok"

(***************************************************************************)
(* Properties of the layer data hooks (checked under CacheSpec).           *)
(***************************************************************************)
entriesOf(h) == {e \in queries : e.kind = h}
exposed(h) == exposedFrom(queries, observed[h], lastDefined[h])
fetchesInFlight(h, f) == {e \in entriesOf(h) : e.fetching /\ e.arg = f}

\* C16: for each layer query (kind and filter value) at most one fetch is in
\* flight at any time: a hook that comes back to a query that is still
\* pending joins its fetch, no second request is made for it.
C16_OneFetchPerQuery ==
    \A h \in Kinds, f \in FilterValues : Cardinality(fetchesInFlight(h, f)) <= 1

\* the filter went from A to B and back to A while the first fetch for A
\* was still in flight: the hook observes that query again, on its first attempt
C16_Witness ==
    /\ changes = 2
    /\ filterOf["density"] = "A"
    /\ Cardinality(entriesOf("density")) = 2
    /\ Cardinality(fetchesInFlight("density", "A")) = 1
    /\ \A e \in fetchesInFlight("density", "A") : e.status = "pending" /\ e.attempts = 1

observedIsFetching(h) == \E e \in entriesOf(h) : e.key = observed[h] /\ e.fetching

\* C17: once a hook has observed Ready data, what it hands to the component
\* while the fetch of its current query is pending is Ready data of that
\* layer, never the absent value.
C17_PreviousDataWhilePending ==
    \A h \in Kinds :
        (lastDefined[h] # NoKey /\ observedIsFetching(h)) =>
            /\ exposed(h).defined
            /\ \E e \in entriesOf(h) : e.status = "success" /\ e.data = exposed(h)

\* the query of the new filter value has no data yet and the data of the
\* previous query stands in for it
C17_Witness ==
    /\ lastDefined["clusters"] # NoKey
    /\ lastDefined["clusters"] # observed["clusters"]
    /\ observedIsFetching("clusters")
    /\ ~dataAt(queries, observed["clusters"]).defined
    /\ exposed("clusters").defined

noFetchInFlight(h) == \A e \in entriesOf(h) : ~e.fetching

C19_FailureSurfaces ==
    \A e \in queries :
        /\ e.attempts <= retry + 1
        /\ (~e.fetching /\ e.failures = e.attempts) => e.status = "error"

\* C20: a step that changes the filter of one layer leaves the queries, the
\* observed key and the exposed data of the two other layers as they were.
C20_FilterChangeIsLocal ==
    [][\A k \in Kinds :
         filterOf'[k] # filterOf[k] =>
            \A h \in Kinds \ {k} :
               /\ {e \in queries' : e.kind = h} = entriesOf(h)
               /\ observed'[h] = observed[h]
               /\ exposedFrom(queries', observed'[h], lastDefined'[h]) = exposed(h)]_vars

\* the neighborhood threshold was changed: its hook fetches the new query,
\* the density and cluster hooks still have the one query they started with
C20_Witness ==
    /\ changes = 1
    /\ filterOf["neighborhoods"] = "B"
    /\ Cardinality(fetchesInFlight("neighborhoods", "B")) = 1
    /\ Cardinality(entriesOf("density")) = 1
    /\ Cardinality(entriesOf("clusters")) = 1

(***************************************************************************)
(* Properties of single operations of the view.                            *)
(***************************************************************************)
\* C21: a call of safelyUpdateMapSource for a source that is not
\* registered, or whose setData throws, returns false, lets no error
\* escape and leaves the map's sources as they were, whatever flags its
\* closure holds and whichever sources the map has (the function touches
\* no flag, no visibility and not the active kind: the sources are all it
\* can change).
C21_FailedUpdateIsContained ==
    \A n \in SourceNames, loaded \in BOOLEAN, ready \in BOOLEAN, setDataOk \in BOOLEAN,
       registered \in BOOLEAN :
        LET missing == IF registered THEN {} ELSE {n}
            srcs == [m \in SourceNames |-> IF m \in missing THEN Unregistered ELSE sources[m]]
            r == safelyUpdateMapSource(loaded, ready, srcs, n, fallbackData, setDataOk)
        IN  (srcs[n] = Unregistered \/ ~setDataOk) =>
               (~r.updated /\ ~r.threw /\ r.sources = srcs)

\* the map is ready and a write of a data effect has failed: its retry is
\* running and the source does not hold what was being written
C21_Witness ==
    /\ mapRef /\ isMapLoaded /\ mapSourcesReady
    /\ \E r \in retries : sources[sourceName(r.layer)] # r.fc

C23_FlagHeldUntilShowStep ==
    (mounted /\ transitionTimers # << >>) => isLayerTransitioning

\* the sources whose content differs between two maps
changedSources(before, after) == {m \in SourceNames : after[m] # before[m]}

\* C24: a source update for one kind changes only that kind's source: applied
\* in any reachable state to any kind, a successful safelyUpdateMapSource
\* leaves the content it was given in that source and every other source as
\* it was; and every step of the view that writes sources (a flush of data
\* effects, a retry tick) changes only sources of kinds whose update ran,
\* leaves the active kind and the phase flags unchanged, and leaves the
\* visibility unchanged unless the visibility effect ran in the same flush.
C24_UpdateTouchesOneSource ==
    /\ [](\A k \in Kinds, loaded \in BOOLEAN, ready \in BOOLEAN, setDataOk \in BOOLEAN :
            LET r == safelyUpdateMapSource(loaded, ready, sources, sourceName(k),
                                           dataToUse(hookData(k)), setDataOk)
            IN  /\ changedSources(sources, r.sources) \subseteq {sourceName(k)}
                /\ r.updated => r.sources[sourceName(k)] = dataToUse(hookData(k)))
    /\ [][(sources' # sources /\ mapRef /\ mapRef' /\ mounted' = mounted
                /\ readyPending' = readyPending) =>
            /\ activeLayer' = activeLayer
            /\ <<isMapLoaded, mapSourcesReady, isMapInitialized, isLayerTransitioning, showMap>>'
                 = <<isMapLoaded, mapSourcesReady, isMapInitialized, isLayerTransitioning, showMap>>
            /\ "visibility" \notin pendingEffects => visible' = visible
            /\ \A m \in changedSources(sources, sources') :
                 \E k \in Kinds :
                    /\ sourceName(k) = m
                    /\ \/ effectWrites(k) /\ sources'[m] = layerUpdate(k).fc
                       \/ \E r \in retries : r.layer = k /\ sources'[m] = r.fc]_vars

\* one source has received features while another is still empty
C24_Witness ==
    /\ mapRef /\ isMapLoaded /\ mapSourcesReady
    /\ \E k \in Kinds, j \in Kinds :
          /\ Len(sources[sourceName(k)]) > 0
          /\ sources[sourceName(k)] = layerUpdate(k).fc
          /\ sources[sourceName(j)] = << >>

\* the server answered with an array that holds no record
answeredEmptyArray == request.fate = "array" /\ Len(request.records) = 0

\* C25: an empty array answered to a cluster or density request yields the
\* empty feature sequence, and so does every failed response; nothing is
\* pushed to the source for it but the empty collection; only a
\* neighborhood request answers an empty or failed response with the
\* built-in fallback set.
C25_NoFallbackForEmpty ==
    (returned # NotReturned /\ ~answeredArray) =>
        /\ (called("density") \/ called("clusters")) => returned.value = << >>
        /\ (pushed.fn \in {"density", "clusters"}) => pushed.fc = << >>
        /\ called("neighborhoods") => returned.value = createFallbackNeighborhoods
        /\ pushed.fn = "neighborhoods" => Len(pushed.fc) > 0

\* an empty array was answered to a cluster request and the empty sequence returned
C25_Witness ==
    /\ called("clusters")
    /\ answeredEmptyArray
    /\ returned.value = << >>
    /\ pushed.fn = "clusters"

\* C28: a switch from the active kind A to another kind B sets the
\* transition flag, hides A and makes B the active kind in its first step and
\* schedules the delayed step; the delayed step of the only outstanding
\* switch, run on the mounted view with its map loaded, makes B (by then the
\* active kind) the one visible kind and clears the flag.
C28_DelayedStepShowsNewKind ==
    [][/\ (activeLayer' # activeLayer) =>
             /\ isLayerTransitioning'
             /\ ~visible'[activeLayer]
             /\ Len(transitionTimers') = Len(transitionTimers) + 1
       /\ (mounted /\ mapRef /\ isMapLoaded /\ Len(transitionTimers) = 1
              /\ transitionTimers' = << >>) =>
             /\ {k \in Kinds : visible'[k]} = {activeLayer}
             /\ ~isLayerTransitioning']_vars

\* a step that writes a source and is neither a flush of effects, nor the
\* load handler, nor a teardown: the write of a retry tick
retryWrote ==
    /\ sources' # sources
    /\ pendingEffects' = pendingEffects
    /\ mounted' = mounted /\ mapRef' = mapRef /\ readyPending' = readyPending

\* C29: a push whose immediate update failed is retried by its interval; a
\* retry that succeeds ends its loop in the same step, a loop that has ended
\* writes nothing more (every such write is that of a loop running before
\* the step and gone after it), and every loop ends, by success or by its
\* five-second timer, without anything being raised.
C29_RetryLoopEnds ==
    /\ [][retryWrote =>
             \E r \in retries \ retries' :
                 /\ retries' = retries \ {r}
                 /\ sources' = [sources EXCEPT ![sourceName(r.layer)] = r.fc]]_vars
    /\ (retries # {}) ~> (retries = {})

\* the immediate update of a push has failed on the ready map and its retry
\* loop is running
C29_Witness ==
    /\ mounted /\ mapRef /\ isMapLoaded /\ mapSourcesReady /\ ~isLayerTransitioning
    /\ pendingEffects = {}
    /\ Cardinality(retries) = 1

\* C30: the step taken on the map's ready signal leaves the three sources
\* registered and empty and density the only visible kind, and, the view
\* being mounted, sets the loaded and sources-ready flags.
C30_ReadyStepRegistersEmpty ==
    [][readyPending' < readyPending =>
          /\ \A n \in SourceNames : sources'[n] = EmptyCollection
          /\ {k \in Kinds : visible'[k]} = {"density"}
          /\ mapRef'
          /\ mounted => (isMapLoaded' /\ mapSourcesReady')]_vars

\* the ready signal has just been handled: nothing has been pushed and the
\* settle timer has not fired yet
C30_Witness ==
    /\ mounted /\ mapRef /\ isMapLoaded /\ mapSourcesReady
    /\ settleTimer /\ ~showMap
    /\ readyPending = 0
    /\ \A n \in SourceNames : sources[n] = EmptyCollection
    /\ visible = [k \in Kinds |-> k = "density"]

\* the lifecycle phase that the flags of the view spell
phase ==
    IF showMap THEN "Interactive"
    ELSE IF isMapLoaded /\ mapSourcesReady THEN "SourcesReady"
    ELSE IF isMapInitialized THEN "Initializing"
    ELSE "Uninitialized"

\* C31: the phase changes only forwards and one phase at a time:
\* Uninitialized to Initializing (an instance is created), Initializing to
\* SourcesReady (on the ready signal of a created instance), SourcesReady
\* to Interactive (when the settle timer that the ready signal started
\* fires); the only other change is a reset to Uninitialized.
C31_PhasesInOrder ==
    [][phase' # phase =>
          \/ phase = "Uninitialized" /\ phase' = "Initializing" /\ mapsCreated' = mapsCreated + 1
          \/ phase = "Initializing" /\ phase' = "SourcesReady"
                /\ readyPending > 0 /\ readyPending' = readyPending - 1
          \/ phase = "SourcesReady" /\ phase' = "Interactive"
                /\ settleTimer /\ ~settleTimer'
          \/ phase' = "Uninitialized"]_vars

\* the view has gone through the four phases and is interactive
C31_Witness ==
    /\ mounted /\ phase = "Interactive"
    /\ mapsCreated = 1 /\ readyPending = 0 /\ ~settleTimer
    /\ switches = 0

\* C32: whenever the map is interactive, no transition is in progress and
\* no timer, retry or effect is pending, the one visible layer kind is the
\* active layer kind, after any sequence of switches.
C32_VisibleIsActive ==
    (/\ mounted /\ mapRef /\ isMapLoaded /\ showMap
     /\ ~isLayerTransitioning
     /\ transitionTimers = << >> /\ ~settleTimer /\ retries = {}
     /\ pendingEffects = {})
        => {k \in Kinds : visible[k]} = {activeLayer}

\* C33: once the data effect of a layer has run on the layer's latest data
\* and the source holds the valid features of that data, no step of the
\* mounted view that leaves that data and the category selection as they
\* are sets the source to anything else: a retry scheduled for an earlier
\* push does not overwrite newer content.
C33_RetryKeepsNewerContent ==
    [][\A k \in Kinds :
          (/\ mounted /\ mounted' /\ mapRef /\ mapRef'
           /\ data[k] > 0 /\ data'[k] = data[k]
           /\ clusterCategory' = clusterCategory
           /\ k \notin pendingEffects
           /\ holdsExpected(k))
              => sources'[sourceName(k)] = sources[sourceName(k)]]_vars

\* C34: after teardown showMap, isMapLoaded and isLayerTransitioning are
\* false and stay false, and no timer set before it (settle, transition,
\* retry) writes to the map when it fires afterwards: neither the content of
\* a source nor the visibility of a layer changes.
C34_NothingAfterTeardown ==
    /\ [](~mounted => (~showMap /\ ~isMapLoaded /\ ~isLayerTransitioning))
    /\ [][(~mounted /\ readyPending' = readyPending) =>
             (sources' = sources /\ visible' = visible)]_vars

C36_NoValidFeatureClears ==
    \A k \in {"density", "clusters"} :
        (/\ mounted /\ mapRef /\ isMapLoaded /\ mapSourcesReady
         /\ ~isLayerTransitioning
         /\ pendingEffects = {} /\ retries = {} /\ ~writeLost
         /\ data[k] > 0 /\ Expected(k) = EmptyCollection)
            => sources[sourceName(k)] = EmptyCollection

\* C37: a step that changes the active layer leaves the cluster category
\* filter and the category list, the filter values and cache of the hooks,
\* the data of all three layers and the contents of every source as they
\* were, and starts no fetch; besides the active kind it changes at most
\* the transition flag, the layer visibility and what is scheduled.
C37_SwitchFrame ==
    [][activeLayer' # activeLayer =>
          /\ sources' = sources
          /\ data' = data
          /\ fetching' = fetching
          /\ clusterCategory' = clusterCategory
          /\ availableCategories' = availableCategories
          /\ UNCHANGED dataLayerVars
          /\ UNCHANGED <<mounted, mapRef, mapsCreated, isMapLoaded, isMapInitialized,
                         mapSourcesReady, showMap, retries, writeLost>>
          /\ isLayerTransitioning'
          /\ visible' = hideCurrentLayer(activeLayer)]_vars

\* a switch has been made while data is shown and another fetch is under way
C37_Witness ==
    /\ mounted /\ switches > 0 /\ activeLayer = "clusters"
    /\ isLayerTransitioning /\ ~visible["density"]
    /\ data["density"] > 0 /\ sources["density-grid"] # EmptyCollection
    /\ fetching # {}

\* C38: the transition flag is true only while the map is Interactive
\* (isMapLoaded and showMap), never in the phases Uninitialized,
\* Initializing or SourcesReady, and a step that starts a layer switch is
\* taken only from an Interactive state.
C38_SwitchOnlyWhenInteractive ==
    /\ [](isLayerTransitioning => (isMapLoaded /\ showMap /\ phase = "Interactive"))
    /\ [][(activeLayer' # activeLayer \/ (~isLayerTransitioning /\ isLayerTransitioning'))
             => (isMapLoaded /\ showMap /\ phase = "Interactive")]_vars

\* a switch is in progress
C38_Witness ==
    /\ mounted /\ isLayerTransitioning /\ transitionTimers # << >>
    /\ activeLayer = "neighborhoods" /\ phase = "Interactive"

\* C39: once the category effect has run on the current cluster data, the
\* selected cluster category is empty or a member of the list of available
\* categories.
C39_CategoryIsAvailable ==
    "categories" \notin pendingEffects
        => (clusterCategory = "" \/ clusterCategory \in availableCategories)

\* C40: isMapLoaded equals mapSourcesReady; isMapLoaded implies that the
\* instance handle is present and isMapInitialized is true; showMap implies
\* isMapLoaded.
C40_FlagsAgree ==
    /\ isMapLoaded = mapSourcesReady
    /\ isMapLoaded => (mapRef /\ isMapInitialized)
    /\ showMap => isMapLoaded

\* 'load' has been handled and the settle delay has not passed
C40_Witness ==
    /\ mounted /\ phase = "SourcesReady"
    /\ isMapLoaded /\ mapSourcesReady /\ mapRef /\ isMapInitialized
    /\ ~showMap /\ settleTimer

(***************************************************************************)
(* Properties of the map callbacks (checked under RecordSpec).             *)
(***************************************************************************)
\* a grid cell as the server documents it: an identifier, an array of
\* coordinates and the four metrics
wellFormedCell(item) ==
    /\ item.grid_id \notin {Absent, <<"">>}
    /\ item.coordinates \notin {Absent, <<"notarray">>}
    /\ item.metrics # Absent
    /\ item.metrics[1].business_count # Absent
    /\ item.metrics[1].avg_rating # Absent
    /\ item.metrics[1].service_diversity # Absent
    /\ item.metrics[1].service_types # Absent

\* C26: every well-formed density record of a response yields exactly one
\* feature, at the record's position, whose properties.id is the record's
\* grid_id, whose business_count, avg_rating, service_diversity and
\* service_types are the record's metrics and whose polygon coordinates are
\* the record's coordinates, all unchanged.
C26_CellCarriedUnchanged ==
    (detail.fn = "density" /\ features.done) =>
        /\ Len(features.list) = Len(detail.items)
        /\ \A i \in 1..Len(detail.items) :
              wellFormedCell(detail.items[i]) =>
                 features.list[i] =
                    [id |-> detail.items[i].grid_id[1],
                     coordinates |-> detail.items[i].coordinates[1],
                     business_count |-> detail.items[i].metrics[1].business_count[1],
                     avg_rating |-> detail.items[i].metrics[1].avg_rating[1],
                     service_diversity |-> detail.items[i].metrics[1].service_diversity[1],
                     service_types |-> detail.items[i].metrics[1].service_types[1]]

\* two well-formed cells, the second with metrics that are all zero or
\* empty, have been features
C26_Witness ==
    /\ detail.fn = "density" /\ features.done
    /\ Len(detail.items) = MaxRecords
    /\ wellFormedCell(detail.items[1]) /\ wellFormedCell(detail.items[2])
    /\ detail.items[1].grid_id = <<"g1">> /\ detail.items[2].grid_id = <<"g2">>
    /\ detail.items[2].metrics[1].business_count = <<0>>
    /\ features.list[1].id = "g1" /\ features.list[2].id = "g2"

\* the three forms of the claim (a pair being sent bare or as the
\* coordinates of a point)
ClaimedForms == {"pair", "coordinates", "xy", "lonlat"}

\* C27: the center of a cluster sent as a coordinate pair, as {x, y} or as
\* {longitude, latitude} gives the point geometry [longitude, latitude] of
\* the point it denotes, the same for every form; the center of a
\* neighborhood without geometry, sent in any of these forms, gives the
\* square around that point, the same for every form.
C27_CenterFormsAgree ==
    features.done =>
        \A i \in 1..Len(detail.items) :
            LET item == detail.items[i]
            IN  /\ (detail.fn = "clusters" /\ item.attrs /\ item.hasCenter
                        /\ item.form \in ClaimedForms) =>
                      /\ features.list[i].coordinates = item.point
                      /\ \A f \in ClaimedForms :
                            clusterCoordinates(centerAs(f, item.point))
                               = features.list[i].coordinates
                /\ (detail.fn = "neighborhoods" /\ item.geometry = Absent /\ item.hasCenter
                        /\ item.form \in ClaimedForms) =>
                      /\ features.list[i].ring = squareAround(item.point)
                      /\ \A f \in ClaimedForms :
                            squareAround(neighborhoodCenterPoint(centerAs(f, item.point), i))
                               = features.list[i].ring

\* the same point was sent as {x, y} and as {longitude, latitude} in one
\* cluster response and both features have it as their coordinates
C27_Witness ==
    /\ detail.fn = "clusters" /\ features.done
    /\ Len(detail.items) = 2
    /\ detail.items[1].attrs /\ detail.items[1].hasCenter /\ detail.items[1].form = "xy"
    /\ detail.items[2].attrs /\ detail.items[2].hasCenter /\ detail.items[2].form = "lonlat"
    /\ detail.items[1].point = detail.items[2].point
    /\ detail.items[1].point[1] # detail.items[1].point[2]
    /\ features.list[1].coordinates = features.list[2].coordinates

====
